---- MODULE Spec2Model ----
(***************************************************************************)
(* DevFormat (src/main.js): the JSON and the YAML format sessions, each    *)
(* with an input editor, an output editor, a debounce timer, a status bar  *)
(* and two localStorage keys.                                              *)
(*                                                                         *)
(* A text is a sequence of lexical units: a unit is a whitespace character *)
(* (" ", "\n", "\t"), a punctuation character, or a whole scalar (a quoted *)
(* string such as "\"name\"", a number, a bare word).  trim, JSON.parse,   *)
(* JSON.stringify, jsyaml.loadAll and jsyaml.dump are computed on these    *)
(* sequences.                                                              *)
(***************************************************************************)
EXTENDS Integers, Sequences, FiniteSets, TLC

(***************************************************************************)
(* Texts                                                                   *)
(***************************************************************************)
Empty == << >>

WS == {" ", "\n", "\t"}

RECURSIVE TrimStart(_)
TrimStart(t) ==
  IF t = Empty THEN Empty
  ELSE IF Head(t) \in WS THEN TrimStart(Tail(t)) ELSE t

RECURSIVE TrimEnd(_)
TrimEnd(t) ==
  IF t = Empty THEN Empty
  ELSE IF t[Len(t)] \in WS THEN TrimEnd(SubSeq(t, 1, Len(t) - 1)) ELSE t

\* String.prototype.trim
Trim(t) == TrimEnd(TrimStart(t))

\* formatted.split('\n').length
LineCount(t) == 1 + Cardinality({i \in 1..Len(t) : t[i] = "\n"})

\* UTF-8 length of one lexical unit
UnitBytes(u) ==
  CASE u = "\"a\"" -> 3
    [] u = "\"name\"" -> 6
    [] u = "\"DevFormat\"" -> 11
    [] u = "\"awesome\"" -> 9
    [] u = "true" -> 4
    [] u = "name" -> 4
    [] u = "DevFormat" -> 9
    [] u = "awesome" -> 7
    [] u = "features" -> 8
    [] u = "format" -> 6
    [] u = "validate" -> 8
    [] u = "---" -> 3
    [] u = "null" -> 4
    [] u = "1.0" -> 3
    [] u = "-0" -> 2
    [] u = "1e400" -> 5
    [] u = "\"<1021 x>\"" -> 1023
    [] u = "\"<1022 x>\"" -> 1024
    [] u = "\"<1023 x>\"" -> 1025
    [] OTHER -> 1

\* new Blob([formatted]).size
RECURSIVE ByteSize(_)
ByteSize(t) == IF t = Empty THEN 0 ELSE UnitBytes(Head(t)) + ByteSize(Tail(t))

Spaces(n) == [i \in 1..n |-> " "]

(***************************************************************************)
(* JSON.parse / JSON.stringify                                             *)
(***************************************************************************)
\* JSON texts here are made of these strings, number literals and
\* literals; the keys of an object are distinct and none is an array index.
\* "<n x>" stands for a string of n letters x
JStrings == {"\"a\"", "\"name\"", "\"DevFormat\"", "\"awesome\"",
             "\"<1021 x>\"", "\"<1022 x>\"", "\"<1023 x>\""}
JNumbers == {"0", "1", "1.0", "-0", "1e400"}
JScalars == JStrings \cup JNumbers \cup {"true", "null"}

\* the Number a number literal denotes, by its shortest decimal notation;
\* a literal beyond the range of a double denotes Infinity
ToNumber(u) ==
  CASE u = "1.0" -> "1"
    [] u = "1e400" -> "Infinity"
    [] OTHER -> u

\* what JSON.stringify writes for a scalar value: a Number that is not
\* finite is written null, and negative zero is written 0
QuoteScalar(v) ==
  CASE v = "Infinity" -> "null"
    [] v = "-0" -> "0"
    [] OTHER -> v

\* the tokens of a JSON text: insignificant whitespace dropped
JTokens(t) == SelectSeq(t, LAMBDA u : u \notin WS)

RECURSIVE JValueEnd(_, _), JElementsEnd(_, _), JMembersEnd(_, _)
\* index just after the value that starts at toks[i]; 0 when there is none
JValueEnd(toks, i) ==
  IF i > Len(toks) THEN 0
  ELSE IF toks[i] \in JScalars THEN i + 1
  ELSE IF toks[i] = "[" THEN
    IF i + 1 <= Len(toks) /\ toks[i + 1] = "]" THEN i + 2
    ELSE JElementsEnd(toks, i + 1)
  ELSE IF toks[i] = "{" THEN
    IF i + 1 <= Len(toks) /\ toks[i + 1] = "}" THEN i + 2
    ELSE JMembersEnd(toks, i + 1)
  ELSE 0

JElementsEnd(toks, i) ==
  LET e == JValueEnd(toks, i) IN
  IF e = 0 \/ e > Len(toks) THEN 0
  ELSE IF toks[e] = "," THEN JElementsEnd(toks, e + 1)
  ELSE IF toks[e] = "]" THEN e + 1
  ELSE 0

JMembersEnd(toks, i) ==
  IF i + 1 > Len(toks) THEN 0
  ELSE IF toks[i] \notin JStrings \/ toks[i + 1] # ":" THEN 0
  ELSE LET e == JValueEnd(toks, i + 2) IN
       IF e = 0 \/ e > Len(toks) THEN 0
       ELSE IF toks[e] = "," THEN JMembersEnd(toks, e + 1)
       ELSE IF toks[e] = "}" THEN e + 1
       ELSE 0

\* JSON.parse(raw): ok = FALSE stands for the SyntaxError it throws.  The
\* value is kept as the sequence of its brackets, separators and scalar
\* values, which determines the value and the order of its keys.
JSONparse(raw) ==
  LET toks == JTokens(raw) IN
  IF toks # Empty /\ JValueEnd(toks, 1) = Len(toks) + 1
  THEN [ok |-> TRUE, value |-> [i \in 1..Len(toks) |-> ToNumber(toks[i])]]
  ELSE [ok |-> FALSE, value |-> Empty]

\* JSON.stringify(value): the text without whitespace
Serialized(value) == [i \in 1..Len(value) |-> QuoteScalar(value[i])]

\* JSON.stringify(value, null, 2), written token by token at nesting depth d
RECURSIVE JPretty(_, _, _)
JPretty(v, i, d) ==
  IF i > Len(v) THEN Empty
  ELSE IF v[i] \in {"{", "["} THEN
    IF i + 1 <= Len(v) /\ v[i + 1] \in {"}", "]"}
    THEN <<v[i], v[i + 1]>> \o JPretty(v, i + 2, d)
    ELSE <<v[i], "\n">> \o Spaces(2 * (d + 1)) \o JPretty(v, i + 1, d + 1)
  ELSE IF v[i] \in {"}", "]"} THEN
    <<"\n">> \o Spaces(2 * (d - 1)) \o <<v[i]>> \o JPretty(v, i + 1, d - 1)
  ELSE IF v[i] = "," THEN <<",", "\n">> \o Spaces(2 * d) \o JPretty(v, i + 1, d)
  ELSE IF v[i] = ":" THEN <<":", " ">> \o JPretty(v, i + 1, d)
  ELSE <<v[i]>> \o JPretty(v, i + 1, d)

\* JSONstringify with the indentation argument left out
JSONstringify_AlwaysCompact(value, minify) == Serialized(value)

\* minify ? JSON.stringify(parsed) : JSON.stringify(parsed, null, 2)
JSONstringify(value, minify) ==
  IF minify THEN Serialized(value) ELSE JPretty(Serialized(value), 1, 0)

(***************************************************************************)
(* jsyaml.loadAll / jsyaml.dump, for block mappings of plain scalars and   *)
(* of block sequences of plain scalars, plain scalar documents and `---`   *)
(* document markers.                                                       *)
(***************************************************************************)
YWords == {"a", "b", "1", "2", "true", "name", "DevFormat", "awesome",
           "features", "format", "validate"}

RECURSIVE SplitLines(_)
\* raw.split('\n')
SplitLines(t) ==
  IF \A i \in 1..Len(t) : t[i] # "\n" THEN <<t>>
  ELSE LET k == CHOOSE i \in 1..Len(t) :
                  t[i] = "\n" /\ \A j \in 1..(i - 1) : t[j] # "\n"
       IN <<SubSeq(t, 1, k - 1)>> \o SplitLines(SubSeq(t, k + 1, Len(t)))

RECURSIVE Indent(_)
\* number of leading whitespace units of a line
Indent(line) ==
  IF line = Empty \/ Head(line) \notin WS THEN 0 ELSE 1 + Indent(Tail(line))

RECURSIVE SkipSpaces(_)
SkipSpaces(t) ==
  IF t # Empty /\ Head(t) = " " THEN SkipSpaces(Tail(t)) ELSE t

RECURSIVE TabColumn(_)
\* the column of the first tab of a line that has one
TabColumn(line) == IF Head(line) = "\t" THEN 0 ELSE 1 + TabColumn(Tail(line))

\* what one line of a YAML text is
YLine(line) ==
  LET n == Indent(line)
      body == TrimEnd(SubSeq(line, n + 1, Len(line)))
      none == [kind |-> "bad", indent |-> n, column |-> n, key |-> "", word |-> ""]
  IN
  IF \E i \in 1..n : line[i] = "\t" /\ body # Empty
    THEN [none EXCEPT !.kind = "tab", !.column = TabColumn(line)]
  ELSE IF body = Empty THEN [none EXCEPT !.kind = "blank"]
  ELSE IF body = <<"---">> /\ n = 0 THEN [none EXCEPT !.kind = "marker"]
  ELSE IF Len(body) = 1 /\ body[1] \in YWords
    THEN [none EXCEPT !.kind = "scalar", !.word = body[1]]
  ELSE IF Len(body) = 2 /\ body[1] \in YWords /\ body[2] = ":"
    THEN [none EXCEPT !.kind = "open", !.key = body[1]]
  ELSE IF Len(body) = 3 /\ body[1] = "-" /\ body[2] = " " /\ body[3] \in YWords
    THEN [none EXCEPT !.kind = "item", !.word = body[3]]
  ELSE IF Len(body) >= 4 /\ body[1] \in YWords /\ body[2] = ":" /\ body[3] = " "
          /\ Len(SkipSpaces(SubSeq(body, 3, Len(body)))) = 1
          /\ SkipSpaces(SubSeq(body, 3, Len(body)))[1] \in YWords
    THEN [none EXCEPT !.kind = "entry", !.key = body[1],
                      !.word = SkipSpaces(SubSeq(body, 3, Len(body)))[1]]
  ELSE none

NoDoc == [kind |-> "none", entries |-> << >>, word |-> ""]

\* the YAMLException at line i, read as l, with its mark
YFail(i, l) == [ok |-> FALSE, docs |-> << >>, line |-> i - 1, column |-> l.column]

RECURSIVE YRead(_, _, _, _)
\* the documents of lines[i..], after the finished documents `docs` and
\* with `cur` the document being read (kind "none": not begun, "null":
\* begun by a marker and still empty), when line i reads as l; a key that
\* the mapping has already is an error
YStep(lines, i, docs, cur, l) ==
  CASE l.kind = "blank" -> YRead(lines, i + 1, docs, cur)
    [] l.kind = "marker" ->
         YRead(lines, i + 1,
               IF cur.kind = "none" THEN docs ELSE Append(docs, cur),
               [NoDoc EXCEPT !.kind = "null"])
    [] l.kind = "scalar" ->
         IF cur.kind \in {"none", "null"}
         THEN YRead(lines, i + 1, docs, [NoDoc EXCEPT !.kind = "scalar", !.word = l.word])
         ELSE YFail(i, l)
    [] l.kind \in {"entry", "open"} ->
         IF /\ cur.kind \in {"none", "null", "map"} /\ l.indent = 0
            /\ \A k \in 1..Len(cur.entries) : cur.entries[k].key # l.key
         THEN YRead(lines, i + 1, docs,
                    [kind |-> "map", word |-> "",
                     entries |-> Append(cur.entries,
                        [key |-> l.key, open |-> l.kind = "open",
                         word |-> l.word, items |-> << >>])])
         ELSE YFail(i, l)
    [] l.kind = "item" ->
         IF cur.kind = "map" /\ cur.entries[Len(cur.entries)].open
         THEN YRead(lines, i + 1, docs,
                    [cur EXCEPT !.entries[Len(cur.entries)].items = Append(@, l.word)])
         ELSE YFail(i, l)
    [] OTHER -> YFail(i, l)

YRead(lines, i, docs, cur) ==
  IF i > Len(lines) THEN
    [ok |-> TRUE, docs |-> IF cur.kind = "none" THEN docs ELSE Append(docs, cur),
     line |-> 0, column |-> 0]
  ELSE YStep(lines, i, docs, cur, YLine(lines[i]))

\* jsyaml.loadAll(raw, doc => docs.push(doc)): ok = FALSE stands for the
\* YAMLException it throws, with err.mark.line and err.mark.column
YAMLloadAll(raw) == YRead(SplitLines(raw), 1, << >>, NoDoc)

RECURSIVE DumpItems(_)
DumpItems(items) ==
  IF items = << >> THEN Empty
  ELSE <<" ", " ", "-", " ", Head(items), "\n">> \o DumpItems(Tail(items))

RECURSIVE DumpEntries(_)
DumpEntries(es) ==
  IF es = << >> THEN Empty
  ELSE LET e == Head(es) IN
       (IF ~e.open THEN <<e.key, ":", " ", e.word, "\n">>
        ELSE IF e.items = << >> THEN <<e.key, ":", " ", "null", "\n">>
        ELSE <<e.key, ":", "\n">> \o DumpItems(e.items))
       \o DumpEntries(Tail(es))

\* jsyaml.dump(doc, { indent: 2, lineWidth: -1, noRefs: true, sortKeys: false })
YAMLdump(doc) ==
  CASE doc.kind = "map" -> DumpEntries(doc.entries)
    [] doc.kind = "scalar" -> <<doc.word, "\n">>
    [] OTHER -> <<"null", "\n">>

RECURSIVE JoinDocs_TrailingSeparator(_)
\* JoinDocs writing the separator after every document
JoinDocs_TrailingSeparator(docs) ==
  IF docs = << >> THEN Empty
  ELSE YAMLdump(docs[1]) \o <<"---", "\n">> \o JoinDocs_TrailingSeparator(Tail(docs))

RECURSIVE JoinDocs(_)
\* docs.map(d => jsyaml.dump(d, ...)).join('---\n')
JoinDocs(docs) ==
  IF docs = << >> THEN Empty
  ELSE IF Len(docs) = 1 THEN YAMLdump(docs[1])
  ELSE YAMLdump(docs[1]) \o <<"---", "\n">> \o JoinDocs(Tail(docs))


(***************************************************************************)
(* The two format sessions                                                 *)
(***************************************************************************)
Sessions == {"json", "yaml"}

\* KEYS
KeyInput(s) == IF s = "json" THEN "devformat_json_input" ELSE "devformat_yaml_input"
\* KeyOutput with one output key for both sessions
KeyOutput_Shared(s) == "devformat_json_output"

KeyOutput(s) == IF s = "json" THEN "devformat_json_output" ELSE "devformat_yaml_output"
KeyTab == "devformat_active_tab"
KEYS == {KeyInput(s) : s \in Sessions} \cup {KeyOutput(s) : s \in Sessions} \cup {KeyTab}

\* the most debounce timers of one session the model lets be pending
MaxTimers == 2

JDefault == <<"{", "\n", " ", " ", "\"name\"", ":", " ", "\"DevFormat\"", ",", "\n",
              " ", " ", "\"awesome\"", ":", " ", "true", "\n", "}">>
YDefault == <<"name", ":", " ", "DevFormat", "\n", "awesome", ":", " ", "true", "\n",
              "features", ":", "\n", " ", " ", "-", " ", "format", "\n",
              " ", " ", "-", " ", "validate">>
defaultInput(s) == IF s = "json" THEN JDefault ELSE YDefault

\* the texts the user types, pastes and edits the output into
JLoose == <<" ", "{", "\"a\"", ":", "1", "}">>
JBad == <<"{", "a", ":", "1", "}">>
JDev == <<"{", "\"name\"", ":", "\"DevFormat\"", ",", "\"awesome\"", ":", "true", "}">>
JList == <<"[", "1", "]">>
JListBad == <<"[", "1", ",", "]">>
YLoose == <<"\n", "a", ":", " ", " ", "1", "\n">>
YTab == <<"a", ":", "\n", "\t", "-", " ", "1">>
YMulti == <<"a", ":", " ", " ", "1", "\n", "---", "\n", "b", ":", " ", "2">>
YOne == <<"b", ":", " ", "2">>

InputTexts(s) == IF s = "json" THEN {Empty, <<" ">>, JLoose, JBad}
                 ELSE {Empty, YLoose, YTab}
ClipboardTexts(s) == IF s = "json" THEN {JDev, JBad, <<"\n">>} ELSE {YMulti, YTab}
OutputTexts(s) == IF s = "json" THEN {Empty, JList, JListBad} ELSE {Empty, YOne, YTab}

\* the texts Format and Minify are tried on: JSON scalars, arrays and
\* objects of two small values, written without whitespace or loosely, and
\* strings of about a kilobyte
JItems == {<<"1">>, <<"1.0">>, <<"-0">>, <<"1e400">>, <<"\"a\"">>, <<"true">>,
           <<"[", "1", "]">>, <<"{", "}">>}
JPairs == {<<"[">> \o x \o <<",">> \o y \o <<"]">> : x, y \in JItems}
            \cup {<<"{", "\"a\"", ":">> \o x \o <<",", "\"name\"", ":">> \o y \o <<"}">> :
                    x, y \in JItems}
JLong == {<<"\"<1021 x>\"">>, <<"\"<1022 x>\"">>, <<"\"<1023 x>\"">>,
          <<"[", "\"<1021 x>\"", "]">>}
JFormatTexts == JItems \cup JPairs \cup {<<" ", "\n">> \o t \o <<"\n">> : t \in JItems}
                  \cup JLong

\* YAML streams of up to MaxDocs documents, with or without a marker before
\* the first, a marker after the last and a blank first line; and texts
\* with a tab in the indentation of their last line
MaxDocs == 3
YDocs == {<<"a", ":", " ", "1">>, <<"b", ":", " ", " ", "2">>, <<"true">>,
          <<"features", ":">>,
          <<"features", ":", "\n", " ", " ", "-", " ", "format">>}

RECURSIVE JoinStream(_)
JoinStream(docs) ==
  IF Len(docs) = 1 THEN docs[1]
  ELSE docs[1] \o <<"\n", "---", "\n">> \o JoinStream(Tail(docs))

YStreams == UNION {{JoinStream(ds) : ds \in [1..n -> YDocs]} : n \in 1..MaxDocs}
YBroken == {<<"features", ":", "\n", "\t", "-", " ", "1">>,
            <<"a", ":", " ", "1", "\n", "\t", "b", ":", " ", "2">>,
            <<"a", ":", " ", "1", "\n", "---", "\n", "b", ":", " ", "2", "\n",
              "\t", "a", ":", " ", "1">>}
YFormatTexts ==
  YStreams \cup {<<"---", "\n">> \o t : t \in YStreams}
           \cup {t \o <<"\n", "---">> : t \in YStreams}
           \cup {<<"\n">> \o t : t \in YStreams \cup YBroken}
           \cup {<<"\n", " ", "\n">> \o t \o <<"\n">> : t \in YBroken}
           \cup YBroken
FormatTexts(s) == IF s = "json" THEN JFormatTexts ELSE YFormatTexts

VARIABLES
  inDoc,          \* inputEditor.state.doc of each session
  outDoc,         \* outputEditor.state.doc of each session
  status,         \* what setStatus last put in the session's status bar
  pending,        \* the session's debounce timers not yet fired, oldest first
  debounceTimer,  \* which of them the debounceTimer handle names (0: none)
  store,          \* localStorage
  activeTab,      \* the panel that is shown
  tabsActive,     \* the modes of the tab buttons that have the class active
  panelsActive,   \* the modes of the panels that have the class active
  progChange,     \* <<session, pane>> whose change handler ran, during the
                  \* last event, for a change the program made itself
  toast,          \* the message the toast element shows ("none": hidden)
  quotaFull,      \* localStorage.setItem throws (QuotaExceededError)
  wired,          \* initJSON and initYAML have run on this page
  inFlight,       \* the sessions whose output editor holds what the user
                  \* typed there after the input edit whose timer is pending
  minified        \* the sessions in which Minify has written the compact
                  \* text and the user has done nothing since

vars == <<inDoc, outDoc, status, pending, debounceTimer, store, activeTab, progChange,
          toast, quotaFull, wired, inFlight, minified, tabsActive, panelsActive>>

\* localStorage entries
Absent == [present |-> FALSE, value |-> Empty]
Item(v) == [present |-> TRUE, value |-> v]

\* size > 1024 ? `${(size / 1024).toFixed(1)} KB` : `${size} B`
\* (num: the bytes, or with unit "KB" the tenths of a kilobyte)
SizeStr(size) ==
  IF size > 1024 THEN [num |-> (size * 10 + 512) \div 1024, unit |-> "KB"]
  ELSE [num |-> size, unit |-> "B"]

Bar(type, label) ==
  [type |-> type, label |-> label, lines |-> 0, size |-> SizeStr(0),
   line |-> 0, col |-> 0]

\* the status bar before any setStatus: idle, with no hint
Markup == Bar("idle", "")
Ready == Bar("idle", "Ready")
InputRestored == Bar("idle", "Input restored")
Measured(label, text) ==
  [Bar("ok", label) EXCEPT !.lines = LineCount(text), !.size = SizeStr(ByteSize(text))]
Invalid(line, col) == [Bar("error", "Invalid") EXCEPT !.line = line, !.col = col]

\* showToast(msg, type)
NoToast == "none"
ToastDenied == "Clipboard access denied"
ToastNothing == "Nothing to copy"
ToastCopied == "Copied to clipboard!"
ToastCopyFailed == "Copy failed"

\* One session's share of the state, as the handlers thread it.
Local(s) ==
  [in |-> inDoc[s], out |-> outDoc[s], status |-> status[s],
   pending |-> pending[s], handle |-> debounceTimer[s],
   sin |-> store[KeyInput(s)], sout |-> store[KeyOutput(s)], prog |-> {},
   toast |-> toast, full |-> quotaFull, typed |-> s \in inFlight, mini |-> FALSE]

Commit(s, m) ==
  /\ wired
  /\ Len(m.pending) <= MaxTimers
  /\ inDoc' = [inDoc EXCEPT ![s] = m.in]
  /\ outDoc' = [outDoc EXCEPT ![s] = m.out]
  /\ status' = [status EXCEPT ![s] = m.status]
  /\ pending' = [pending EXCEPT ![s] = m.pending]
  /\ debounceTimer' = [debounceTimer EXCEPT ![s] = m.handle]
  /\ store' = [store EXCEPT ![KeyInput(s)] = m.sin, ![KeyOutput(s)] = m.sout]
  /\ progChange' = {<<s, p>> : p \in m.prog}
  /\ toast' = m.toast
  /\ inFlight' = IF m.typed /\ m.pending # << >> THEN inFlight \cup {s} ELSE inFlight \ {s}
  /\ minified' = IF m.mini THEN minified \cup {s} ELSE minified \ {s}
  /\ UNCHANGED <<activeTab, quotaFull, wired, tabsActive, panelsActive>>

\* ClearTimeout with the clearTimeout call left out
ClearTimeout_Forgotten(m) == m

\* clearTimeout(debounceTimer)
ClearTimeout(m) ==
  IF m.handle = 0 THEN m
  ELSE [m EXCEPT !.pending = SubSeq(@, 1, m.handle - 1) \o SubSeq(@, m.handle + 1, Len(@)),
                 !.handle = 0]

\* debounceTimer = setTimeout(() => { if (val.trim()) process() }, 600)
SetTimeout(m, val, by) ==
  [m EXCEPT !.pending = Append(@, [val |-> val, by |-> by]),
            !.handle = Len(m.pending) + 1,
            !.typed = FALSE]

Noted(m, pane, by) == IF by = "prog" THEN [m EXCEPT !.prog = @ \cup {pane}] ELSE m

\* the onChange of inputEditor; when setItem throws, the rest of the handler
\* is skipped and the editor logs the exception of its update listener
InputOnChange(m, val, by) ==
  IF m.full THEN Noted(m, "input", by)
  ELSE SetTimeout(ClearTimeout(Noted([m EXCEPT !.sin = Item(val)], "input", by)), val, by)

\* OutputOnChange with the localStorage.setItem left out
OutputOnChange_NoPersist(m, val, by) == Noted(m, "output", by)

\* OutputOnChange copying what the user typed into the input editor without
\* parsing it
OutputOnChange_SyncsUnparsed(m, val, by) ==
  IF m.full THEN Noted(m, "output", by)
  ELSE IF by = "user"
    THEN [m EXCEPT !.sout = Item(val), !.in = val, !.sin = Item(val)]
  ELSE Noted([m EXCEPT !.sout = Item(val)], "output", by)

\* the onChange of outputEditor
OutputOnChange(m, val, by) ==
  IF m.full THEN Noted(m, "output", by)
  ELSE Noted([m EXCEPT !.sout = Item(val)], "output", by)

\* update.docChanged: the transaction's change set is not empty
DocChanged(old, new) == old # Empty \/ new # Empty

\* the updateListener of createEditor
InputListener(m, old, by) ==
  IF DocChanged(old, m.in) THEN InputOnChange(m, m.in, by) ELSE m

OutputListener(m, old, by) ==
  IF DocChanged(old, m.out)
  THEN [OutputOnChange(m, m.out, by) EXCEPT !.typed = (by = "user" /\ m.pending # << >>)]
  ELSE m

\* setEditorDoc(inputEditor, text)
SetInputDoc(m, text) == InputListener([m EXCEPT !.in = text], m.in, "prog")

\* setEditorDoc(outputEditor, text)
SetOutputDoc(m, text) == OutputListener([m EXCEPT !.out = text], m.out, "prog")

\* the try block of processJSON / processYAML on the trimmed input
Formatted(s, raw, minify) ==
  IF s = "json" THEN
    LET p == JSONparse(raw) IN
    [ok |-> p.ok, text |-> IF p.ok THEN JSONstringify(p.value, minify) ELSE Empty,
     line |-> 0, col |-> 0]
  ELSE
    LET l == YAMLloadAll(raw) IN
    [ok |-> l.ok, text |-> IF l.ok THEN TrimEnd(JoinDocs(l.docs)) ELSE Empty,
     line |-> IF l.ok THEN 0 ELSE l.line + 1, col |-> IF l.ok THEN 0 ELSE l.column + 1]

\* Process with the removeItem of the catch block left out
Process_KeepsKeyOnError(m, s, minify) ==
  LET raw == Trim(m.in)
      f == Formatted(s, raw, minify)
  IN
  IF raw = Empty THEN
    [SetOutputDoc(m, Empty) EXCEPT !.sout = Absent, !.status = Ready]
  ELSE IF f.ok /\ ~m.full THEN
    [SetOutputDoc(m, f.text) EXCEPT !.sout = Item(f.text),
                                    !.status = Measured("Valid", f.text)]
  ELSE IF f.ok THEN
    [SetOutputDoc(SetOutputDoc(m, f.text), Empty)
       EXCEPT !.sout = Absent, !.status = Invalid(0, 0)]
  ELSE
    [SetOutputDoc(m, Empty) EXCEPT !.status = Invalid(f.line, f.col)]

\* processJSON(minify) / processYAML(); when the setItem of the try block
\* throws, the catch block takes the exception for a parse error
Process(m, s, minify) ==
  LET raw == Trim(m.in)
      f == Formatted(s, raw, minify)
  IN
  IF raw = Empty THEN
    [SetOutputDoc(m, Empty) EXCEPT !.sout = Absent, !.status = Ready]
  ELSE IF f.ok /\ ~m.full THEN
    [SetOutputDoc(m, f.text) EXCEPT !.sout = Item(f.text),
                                    !.status = Measured("Valid", f.text)]
  ELSE IF f.ok THEN
    [SetOutputDoc(SetOutputDoc(m, f.text), Empty)
       EXCEPT !.sout = Absent, !.status = Invalid(0, 0)]
  ELSE
    [SetOutputDoc(m, Empty) EXCEPT !.sout = Absent, !.status = Invalid(f.line, f.col)]

\* Restore running the formatter on the restored input
Restore_Reformats(s, sin, sout) ==
  LET savedInput == IF sin.present THEN sin.value ELSE defaultInput(s)
      f == Formatted(s, Trim(savedInput), FALSE)
  IN [in |-> savedInput, out |-> f.text,
      status |-> IF f.ok THEN Measured("Valid", f.text)
                 ELSE IF savedInput # Empty THEN InputRestored
                 ELSE Markup]

\* Restore looking at the restored input before the restored output
Restore_InputFirst(s, sin, sout) ==
  LET savedInput == IF sin.present THEN sin.value ELSE defaultInput(s)
      savedOutput == IF sout.present THEN sout.value ELSE Empty
  IN [in |-> savedInput, out |-> savedOutput,
      status |-> IF savedInput # Empty THEN InputRestored
                 ELSE IF savedOutput # Empty THEN Measured("Restored", savedOutput)
                 ELSE Markup]

\* initJSON / initYAML up to the restored status: the session as the
\* stored entries sin, sout give it
Restore(s, sin, sout) ==
  LET savedInput == IF sin.present THEN sin.value ELSE defaultInput(s)
      savedOutput == IF sout.present THEN sout.value ELSE Empty
  IN [in |-> savedInput, out |-> savedOutput,
      status |-> IF savedOutput # Empty THEN Measured("Restored", savedOutput)
                 ELSE IF savedInput # Empty THEN InputRestored
                 ELSE Markup]

\* initTabs: localStorage.getItem(KEYS.activeTab) || 'json'
savedTab(st) ==
  IF st[KeyTab].present /\ st[KeyTab].value # Empty THEN st[KeyTab].value[1] ELSE "json"

\* the tab buttons (data-mode) and the panels (panel-<mode>) of the page
Tabs == Sessions
Panels == Sessions

\* ActivePanels adding the class to the panel of mode and taking it off none
ActivePanels_NeverHides(shown, mode) == shown \cup {p \in Panels : p = mode}

\* activateTab: t.classList.toggle('active', t.dataset.mode === mode) and
\* p.classList.toggle('active', p.id === `panel-${mode}`)
ActiveTabs(shown, mode) == {t \in Tabs : t = mode}
ActivePanels(shown, mode) == {p \in Panels : p = mode}

\* DOMContentLoaded on the store st.  When the setItem of activateTab
\* throws, the listener ends there, after initTabs has shown the tab and
\* before initJSON and initYAML: the page has no editors.
Boot(st) ==
  /\ activeTab' = savedTab(st)
  /\ tabsActive' = ActiveTabs({"json"}, savedTab(st))
  /\ panelsActive' = ActivePanels({"json"}, savedTab(st))
  /\ store' = IF quotaFull THEN st ELSE [st EXCEPT ![KeyTab] = Item(<<savedTab(st)>>)]
  /\ inDoc' = [s \in Sessions |->
                IF quotaFull THEN Empty
                ELSE Restore(s, st[KeyInput(s)], st[KeyOutput(s)]).in]
  /\ outDoc' = [s \in Sessions |->
                 IF quotaFull THEN Empty
                 ELSE Restore(s, st[KeyInput(s)], st[KeyOutput(s)]).out]
  /\ status' = [s \in Sessions |->
                 IF quotaFull THEN Markup
                 ELSE Restore(s, st[KeyInput(s)], st[KeyOutput(s)]).status]
  /\ pending' = [s \in Sessions |-> << >>]
  /\ debounceTimer' = [s \in Sessions |-> 0]
  /\ progChange' = {}
  /\ toast' = NoToast
  /\ wired' = ~quotaFull
  /\ inFlight' = {}
  /\ minified' = {}
  /\ UNCHANGED quotaFull

\* the page as loaded with no text stored, and the tab of the last visit
Init ==
  /\ activeTab \in Sessions
  /\ store = [k \in KEYS |-> IF k = KeyTab THEN Item(<<activeTab>>) ELSE Absent]
  /\ inDoc = [s \in Sessions |-> defaultInput(s)]
  /\ outDoc = [s \in Sessions |-> Empty]
  /\ status = [s \in Sessions |-> InputRestored]
  /\ pending = [s \in Sessions |-> << >>]
  /\ debounceTimer = [s \in Sessions |-> 0]
  /\ progChange = {}
  /\ toast = NoToast
  /\ quotaFull = FALSE
  /\ wired = TRUE
  /\ inFlight = {}
  /\ minified = {}
  /\ tabsActive = {activeTab}
  /\ panelsActive = {activeTab}

\* the user edits the input editor so that it holds text
UserEditInput(s, text) ==
  /\ DocChanged(inDoc[s], text)
  /\ Commit(s, InputListener([Local(s) EXCEPT !.in = text], inDoc[s], "user"))

\* the user edits the output editor so that it holds text
UserEditOutput(s, text) ==
  /\ DocChanged(outDoc[s], text)
  /\ Commit(s, OutputListener([Local(s) EXCEPT !.out = text], outDoc[s], "user"))

\* the session's oldest timer fires: if (val.trim()) process(false)
TimerFire(s) ==
  /\ pending[s] # << >>
  /\ LET m == [Local(s) EXCEPT !.pending = Tail(@),
                               !.handle = IF @ > 0 THEN @ - 1 ELSE 0,
                               !.mini = s \in minified]
     IN Commit(s, IF Trim(Head(pending[s]).val) # Empty THEN Process(m, s, FALSE) ELSE m)

\* formatBtn click
FormatClick(s) == Commit(s, Process(Local(s), s, FALSE))

\* MinifyClick calling processJSON(false)
MinifyClick_Pretty(s) == s = "json" /\ Commit(s, Process(Local(s), s, FALSE))

\* minifyBtn click (the JSON panel only)
MinifyClick(s) ==
  /\ s = "json"
  /\ LET m == Process(Local(s), s, TRUE)
     IN Commit(s, [m EXCEPT !.mini = (m.status.label = "Valid")])

\* ClearClick emptying the editors behind the back of their listeners, and
\* removing no key
ClearClick_KeepsKeys(s) ==
  Commit(s, [Local(s) EXCEPT !.in = Empty, !.out = Empty, !.status = Ready])

\* clearBtn click
ClearClick(s) ==
  Commit(s, [SetOutputDoc(SetInputDoc(Local(s), Empty), Empty)
               EXCEPT !.sin = Absent, !.sout = Absent, !.status = Ready])

\* PasteResolved leaving the formatting to the debounce timer
PasteResolved_Debounced(s, text) ==
  Commit(s, IF quotaFull
            THEN [SetInputDoc(Local(s), text) EXCEPT !.toast = ToastDenied]
            ELSE [SetInputDoc(Local(s), text) EXCEPT !.sin = Item(text)])

\* pasteBtn click, once navigator.clipboard.readText() has resolved with
\* text; when setItem throws, the catch block of the click handler takes the
\* exception for a clipboard failure
PasteResolved(s, text) ==
  Commit(s, IF quotaFull
            THEN [SetInputDoc(Local(s), text) EXCEPT !.toast = ToastDenied]
            ELSE Process([SetInputDoc(Local(s), text) EXCEPT !.sin = Item(text)], s, FALSE))

\* PasteRejected emptying the input editor
PasteRejected_ClearsInput(s) ==
  Commit(s, [SetInputDoc(Local(s), Empty) EXCEPT !.toast = ToastDenied])

\* pasteBtn click, once navigator.clipboard.readText() has thrown or rejected
PasteRejected(s) == Commit(s, [Local(s) EXCEPT !.toast = ToastDenied])

\* copyBtn click on an empty output editor
CopyEmpty(s) ==
  /\ outDoc[s] = Empty
  /\ Commit(s, [Local(s) EXCEPT !.toast = ToastNothing])

\* copyBtn click, once navigator.clipboard.writeText(text) has resolved
CopyResolved(s) ==
  /\ outDoc[s] # Empty
  /\ Commit(s, [Local(s) EXCEPT !.toast = ToastCopied])

\* copyBtn click, once navigator.clipboard.writeText(text) has thrown or
\* rejected
CopyRejected(s) ==
  /\ outDoc[s] # Empty
  /\ Commit(s, [Local(s) EXCEPT !.toast = ToastCopyFailed])

\* the 2400 ms timer of showToast fires
ToastExpire ==
  /\ toast # NoToast
  /\ toast' = NoToast
  /\ UNCHANGED <<inDoc, outDoc, status, pending, debounceTimer, store, activeTab,
                 progChange, quotaFull, wired, inFlight, minified, tabsActive, panelsActive>>

\* the page is reloaded
Reload == Boot(store)

\* a click on the tab of panel mode: activateTab(tab.dataset.mode)
TabClick(mode) ==
  /\ activeTab' = mode
  /\ tabsActive' = ActiveTabs(tabsActive, mode)
  /\ panelsActive' = ActivePanels(panelsActive, mode)
  /\ store' = IF quotaFull THEN store ELSE [store EXCEPT ![KeyTab] = Item(<<mode>>)]
  /\ UNCHANGED <<inDoc, outDoc, status, pending, debounceTimer, progChange,
                 toast, quotaFull, wired, inFlight, minified>>

\* the origin's storage quota is used up: setItem throws from now on
StorageFills ==
  /\ ~quotaFull
  /\ quotaFull' = TRUE
  /\ UNCHANGED <<inDoc, outDoc, status, pending, debounceTimer, store, activeTab,
                 progChange, toast, wired, inFlight, minified, tabsActive, panelsActive>>

\* storage is freed: setItem works again
StorageFrees ==
  /\ quotaFull
  /\ quotaFull' = FALSE
  /\ UNCHANGED <<inDoc, outDoc, status, pending, debounceTimer, store, activeTab,
                 progChange, toast, wired, inFlight, minified, tabsActive, panelsActive>>

\* The user works in the panel that is shown.
Next ==
  \/ \E s \in {activeTab} : \E text \in InputTexts(s) : UserEditInput(s, text)
  \/ \E s \in {activeTab} : \E text \in OutputTexts(s) : UserEditOutput(s, text)
  \/ \E s \in Sessions : TimerFire(s)
  \/ \E s \in {activeTab} : FormatClick(s)
  \/ \E s \in {activeTab} : MinifyClick(s)
  \/ \E s \in {activeTab} : ClearClick(s)
  \/ \E s \in {activeTab} : \E text \in ClipboardTexts(s) : PasteResolved(s, text)
  \/ \E s \in {activeTab} : PasteRejected(s)
  \/ \E s \in {activeTab} : CopyEmpty(s)
  \/ \E s \in {activeTab} : CopyResolved(s)
  \/ \E s \in {activeTab} : CopyRejected(s)
  \/ ToastExpire
  \/ Reload

\* Spec follows the user in the panel that was open when the page loaded.
Spec == Init /\ [][Next]_vars

\* SpecForward is Spec with a user who never types in the output editor.
NextForward ==
  \/ \E s \in {activeTab} : \E text \in InputTexts(s) : UserEditInput(s, text)
  \/ \E s \in Sessions : TimerFire(s)
  \/ \E s \in {activeTab} : FormatClick(s)
  \/ \E s \in {activeTab} : MinifyClick(s)
  \/ \E s \in {activeTab} : ClearClick(s)
  \/ \E s \in {activeTab} : \E text \in ClipboardTexts(s) : PasteResolved(s, text)
  \/ \E s \in {activeTab} : PasteRejected(s)
  \/ \E s \in {activeTab} : CopyEmpty(s)
  \/ \E s \in {activeTab} : CopyResolved(s)
  \/ \E s \in {activeTab} : CopyRejected(s)
  \/ ToastExpire
  \/ Reload

SpecForward == Init /\ [][NextForward]_vars

\* SpecTabs lets the user also change panels, so that the events of the two
\* sessions interleave.
NextTabs == Next \/ \E mode \in Sessions : TabClick(mode)
SpecTabs == Init /\ [][NextTabs]_vars

\* SpecIso interleaves the events of the two sessions on one text of each
\* kind: the user changes panels between any two events.
IsoInputTexts(s) == IF s = "json" THEN {JLoose} ELSE {YTab}
IsoOutputTexts(s) == IF s = "json" THEN {JListBad} ELSE {YOne}
IsoClipboardTexts(s) == IF s = "json" THEN {JBad} ELSE {YMulti}

NextIso ==
  \/ \E s \in {activeTab} : \E text \in IsoInputTexts(s) : UserEditInput(s, text)
  \/ \E s \in {activeTab} : \E text \in IsoOutputTexts(s) : UserEditOutput(s, text)
  \/ \E s \in Sessions : TimerFire(s)
  \/ \E s \in {activeTab} : FormatClick(s)
  \/ \E s \in {activeTab} : MinifyClick(s)
  \/ \E s \in {activeTab} : ClearClick(s)
  \/ \E s \in {activeTab} : \E text \in IsoClipboardTexts(s) : PasteResolved(s, text)
  \/ \E s \in {activeTab} : PasteRejected(s)
  \/ \E s \in {activeTab} : CopyEmpty(s)
  \/ \E s \in {activeTab} : CopyResolved(s)
  \/ \E s \in {activeTab} : CopyRejected(s)
  \/ \E mode \in Sessions : TabClick(mode)

SpecIso == Init /\ [][NextIso]_vars

\* the user clears the site's data in the browser: every key is absent
SiteDataCleared ==
  /\ \E k \in KEYS : store[k].present
  /\ store' = [k \in KEYS |-> Absent]
  /\ UNCHANGED <<inDoc, outDoc, status, pending, debounceTimer, activeTab, progChange,
                 toast, quotaFull, wired, inFlight, minified, tabsActive, panelsActive>>

\* SpecVisits follows the tabs over visits: the user types, formats,
\* changes panels, reloads, and clears the site's data between visits.
NextVisits ==
  \/ \E s \in {activeTab} : \E text \in IsoInputTexts(s) : UserEditInput(s, text)
  \/ \E s \in Sessions : TimerFire(s)
  \/ \E s \in {activeTab} : FormatClick(s)
  \/ \E mode \in Sessions : TabClick(mode)
  \/ Reload
  \/ SiteDataCleared

SpecVisits == Init /\ [][NextVisits]_vars

\* SpecStorage lets the storage quota run out and come back.
NextStorage == Next \/ StorageFills \/ StorageFrees
SpecStorage == Init /\ [][NextStorage]_vars

\* SpecFormat tries Format and Minify on each of FormatTexts: the page as
\* loaded after the user has typed the text into the input editor.
InitFormat ==
  /\ activeTab \in Sessions
  /\ \E text \in FormatTexts(activeTab) :
       /\ store = [k \in KEYS |-> IF k = KeyTab THEN Item(<<activeTab>>)
                                  ELSE IF k = KeyInput(activeTab) THEN Item(text)
                                  ELSE Absent]
       /\ inDoc = [s \in Sessions |-> IF s = activeTab THEN text ELSE defaultInput(s)]
  /\ outDoc = [s \in Sessions |-> Empty]
  /\ status = [s \in Sessions |-> Restore(s, store[KeyInput(s)], Absent).status]
  /\ pending = [s \in Sessions |-> << >>]
  /\ debounceTimer = [s \in Sessions |-> 0]
  /\ progChange = {}
  /\ toast = NoToast
  /\ quotaFull = FALSE
  /\ wired = TRUE
  /\ inFlight = {}
  /\ minified = {}
  /\ tabsActive = {activeTab}
  /\ panelsActive = {activeTab}

NextFormat ==
  \/ \E s \in {activeTab} : FormatClick(s)
  \/ \E s \in {activeTab} : MinifyClick(s)

SpecFormat == InitFormat /\ [][NextFormat]_vars

\* A pending timer fires after its 600 ms: weak fairness of TimerFire(s),
\* written out with its enabling condition, pending[s] # << >>.
TimerFairness(s) == []<>(pending[s] = << >>) \/ []<><<TimerFire(s)>>_vars
SpecFair == Spec /\ \A s \in Sessions : TimerFairness(s)
(***************************************************************************)
(* Properties                                                              *)
(***************************************************************************)
\* the text parses: what a dry-run parse of it reports
Parses(s, text) == Formatted(s, Trim(text), FALSE).ok

\* C1: a change the program itself makes to a pane (debounced format,
\* Format, Minify, Clear, Paste) never makes that pane's change handler do
\* any work: no store write, no cancelling or restarting of the timer.
C1_ProgrammaticWriteDoesNoHandlerWork ==
  /\ progChange = {}
  /\ \A s \in Sessions : \A i \in 1..Len(pending[s]) : pending[s][i].by = "user"

\* C2: after the user edits the output editor into a non-empty text that
\* parses, the input editor comes to hold that raw text: once no timer of
\* the session is left to fire, the input editor holds it.
C2_BackwardSync ==
  [][\A s \in Sessions : \A text \in OutputTexts(s) :
       (UserEditOutput(s, text) /\ Trim(text) # Empty /\ Parses(s, text)
          /\ pending'[s] = << >>)
       => inDoc'[s] = text]_vars

\* C3: a user edit that leaves the input editor empty after trimming clears
\* the output editor and sets the status to idle in the same step.
C3_EmptyInputClearsOutputAtOnce ==
  [][\A s \in Sessions : \A text \in InputTexts(s) :
       (UserEditInput(s, text) /\ Trim(text) = Empty)
       => (outDoc'[s] = Empty /\ status'[s].type = "idle")]_vars
\* what Format makes of the input text of session s
Canonical(s) == Formatted(s, Trim(inDoc[s]), FALSE)

\* C4: a user edit of the input persists the raw text at once and leaves a
\* timer pending; a pending timer fires; and when the timer of a text that
\* is not empty after trimming fires, either the output editor and the
\* output key hold the pretty form of the input and the status is Valid, or
\* the output editor is empty, the output key absent and the status Invalid.
C4_ForwardEdit ==
  /\ [][\A s \in Sessions :
          /\ \A text \in InputTexts(s) : UserEditInput(s, text) =>
               /\ store'[KeyInput(s)] = Item(text)
               /\ pending'[s] # << >>
               /\ outDoc'[s] = outDoc[s]
          /\ (TimerFire(s) /\ Trim(Head(pending[s]).val) # Empty) =>
               IF Canonical(s).ok
               THEN /\ outDoc'[s] = Canonical(s).text
                    /\ store'[KeyOutput(s)] = Item(Canonical(s).text)
                    /\ status'[s].type = "ok" /\ status'[s].label = "Valid"
               ELSE /\ outDoc'[s] = Empty
                    /\ store'[KeyOutput(s)] = Absent
                    /\ status'[s].type = "error" /\ status'[s].label = "Invalid"]_vars
  /\ \A s \in Sessions : (pending[s] # << >>) ~> (pending[s] = << >>)

\* C4 happened: the timer of a typed text has fired and formatted it
C4_Witness ==
  /\ inDoc["json"] = JLoose /\ pending["json"] = << >>
  /\ outDoc["json"] = <<"{", "\n", " ", " ", "\"a\"", ":", " ", "1", "\n", "}">>
  /\ status["json"].label = "Valid"
  /\ store[KeyInput("json")] = Item(JLoose)

\* C5: a session never has more than one debounce timer pending, the
\* pending timer is the one of the latest change of the input, and a user
\* edit of the input leaves exactly the timer it scheduled.
C5_Debounce ==
  /\ [](\A s \in Sessions :
          /\ Len(pending[s]) <= 1
          /\ \A i \in 1..Len(pending[s]) : pending[s][i].val = inDoc[s])
  /\ [][\A s \in Sessions : \A text \in InputTexts(s) :
          UserEditInput(s, text) => pending'[s] = <<[val |-> text, by |-> "user"]>>]_vars

\* C5 happened: a user edit replaced the timer of an earlier change
C5_Witness ==
  /\ pending["json"] = <<[val |-> JBad, by |-> "user"]>>
  /\ store[KeyInput("json")] = Item(JBad)
  /\ outDoc["json"] = <<"{", "\n", " ", " ", "\"a\"", ":", " ", "1", "\n", "}">>
\* C6: Format, in any state, formats the input text in the same step: valid
\* input puts the pretty text in the output editor and under the output
\* key, with status Valid and the line count of that text (4 lines for the
\* DevFormat example); invalid input empties the output editor, removes the
\* output key and gives status Invalid; input that is empty after trimming
\* empties the output editor and gives status idle.  The input editor is
\* not changed.
C6_Format ==
  [][\A s \in Sessions : FormatClick(s) =>
       /\ inDoc'[s] = inDoc[s]
       /\ IF Trim(inDoc[s]) = Empty
          THEN outDoc'[s] = Empty /\ status'[s].type = "idle"
          ELSE IF Canonical(s).ok
          THEN /\ outDoc'[s] = Canonical(s).text
               /\ store'[KeyOutput(s)] = Item(Canonical(s).text)
               /\ status'[s].type = "ok" /\ status'[s].label = "Valid"
               /\ status'[s].lines = LineCount(Canonical(s).text)
          ELSE /\ outDoc'[s] = Empty
               /\ store'[KeyOutput(s)] = Absent
               /\ status'[s].type = "error" /\ status'[s].label = "Invalid"
       /\ inDoc[s] \in {JDev, JDefault} =>
            /\ outDoc'[s] = <<"{", "\n", " ", " ", "\"name\"", ":", " ", "\"DevFormat\"", ",",
                              "\n", " ", " ", "\"awesome\"", ":", " ", "true", "\n", "}">>
            /\ status'[s].lines = 4]_vars

\* C6 happened: Format was clicked on the input nobody had edited, with no
\* timer pending
C6_Witness ==
  /\ inDoc["json"] = JDefault /\ ~store[KeyInput("json")].present
  /\ outDoc["json"] = JDefault /\ store[KeyOutput("json")] = Item(JDefault)
  /\ status["json"].label = "Valid" /\ status["json"].lines = 4
  /\ pending["json"] = << >>

\* C7: Minify (JSON only) does what Format does, except that valid input
\* puts the compact, one-line text without whitespace in the output editor
\* and under the output key; on invalid and on empty input the step is the
\* step Format takes.
C7_Minify ==
  [][\A s \in Sessions : MinifyClick(s) =>
       /\ s = "json"
       /\ inDoc'[s] = inDoc[s]
       /\ IF Trim(inDoc[s]) # Empty /\ Canonical(s).ok
          THEN /\ outDoc'[s] = JSONparse(Trim(inDoc[s])).value
               /\ \A i \in 1..Len(outDoc'[s]) : outDoc'[s][i] \notin WS
               /\ store'[KeyOutput(s)] = Item(outDoc'[s])
               /\ status'[s].type = "ok" /\ status'[s].label = "Valid"
               /\ status'[s].lines = 1
               /\ JSONparse(outDoc'[s]).value = JSONparse(Canonical(s).text).value
          ELSE FormatClick(s)
       /\ inDoc[s] \in {JDev, JDefault} =>
            outDoc'[s] = <<"{", "\"name\"", ":", "\"DevFormat\"", ",",
                           "\"awesome\"", ":", "true", "}">>]_vars

\* C7 happened: Minify was clicked on the input nobody had edited
C7_Witness ==
  /\ inDoc["json"] = JDefault /\ ~store[KeyInput("json")].present
  /\ outDoc["json"] = JDev /\ store[KeyOutput("json")] = Item(JDev)
  /\ status["json"].label = "Valid" /\ status["json"].lines = 1

\* C8: after Clear both editors of the session are empty, both its keys
\* are absent and the status is idle; and the changes Clear makes to the
\* editors start no sync: no change handler runs for them and no debounce
\* timer is left pending.
C8_ClearAtomic ==
  [][\A s \in Sessions : ClearClick(s) =>
       /\ inDoc'[s] = Empty /\ outDoc'[s] = Empty
       /\ store'[KeyInput(s)] = Absent /\ store'[KeyOutput(s)] = Absent
       /\ status'[s].type = "idle"
       /\ pending'[s] = << >>
       /\ progChange' = {}]_vars

\* C9: when the clipboard read of Paste gives text, in that step the input
\* editor and the input key come to hold the raw text and the text is
\* formatted: the output editor and the status are those of the text.
C9_Paste ==
  [][\A s \in Sessions : \A text \in ClipboardTexts(s) : PasteResolved(s, text) =>
       /\ inDoc'[s] = text
       /\ store'[KeyInput(s)] = Item(text)
       /\ IF Trim(text) = Empty
          THEN outDoc'[s] = Empty /\ status'[s].type = "idle"
          ELSE IF Parses(s, text)
          THEN /\ outDoc'[s] = Formatted(s, Trim(text), FALSE).text
               /\ status'[s].type = "ok" /\ status'[s].label = "Valid"
          ELSE outDoc'[s] = Empty /\ status'[s].type = "error"]_vars

\* C9 happened: the pasted text is formatted while the timer that the
\* change of the input editor scheduled is still pending
C9_Witness ==
  /\ inDoc["json"] = JDev /\ store[KeyInput("json")] = Item(JDev)
  /\ outDoc["json"] = JDefault /\ status["json"].label = "Valid"
  /\ pending["json"] = <<[val |-> JDev, by |-> "prog"]>>

\* C10 as claimed: a reload gives every editor the text it held.
C10_ReloadRestoresPanes ==
  [][Reload => (inDoc' = inDoc /\ outDoc' = outDoc)]_vars

\* C10 as amended: a reload gives every output editor the text it held, and
\* every input editor too, except an empty input editor whose key is
\* absent (after Clear), which gets the built-in default.
C10_ReloadRestoresPanesAmended ==
  [][Reload =>
       \A s \in Sessions :
         /\ outDoc'[s] = outDoc[s]
         /\ \/ inDoc'[s] = inDoc[s]
            \/ /\ ~store[KeyInput(s)].present
               /\ inDoc[s] = Empty
               /\ inDoc'[s] = defaultInput(s)]_vars

\* C10 happened: a reload restored an output the user had typed and an input
\* the user had typed
C10_Witness ==
  /\ status["json"].label = "Restored"
  /\ outDoc["json"] = JList /\ inDoc["json"] = JBad
  /\ pending["json"] = << >>

\* C11: a (re)load puts the stored input, or the built-in default when the
\* input key is absent, and the stored output, or the empty text, in the
\* editors; it runs no formatter and no change handler, leaves both keys of
\* each session as they are and leaves no timer pending, so that nothing
\* changes until the user acts.
C11_InitDoesNotRecompute ==
  [][Reload =>
       /\ \A s \in Sessions :
            /\ inDoc'[s] = IF store[KeyInput(s)].present
                           THEN store[KeyInput(s)].value ELSE defaultInput(s)
            /\ outDoc'[s] = IF store[KeyOutput(s)].present
                            THEN store[KeyOutput(s)].value ELSE Empty
            /\ store'[KeyInput(s)] = store[KeyInput(s)]
            /\ store'[KeyOutput(s)] = store[KeyOutput(s)]
            /\ pending'[s] = << >> /\ debounceTimer'[s] = 0
            /\ status'[s].label \notin {"Valid", "Invalid"}
       /\ progChange' = {}]_vars

\* C11 happened: a reload restored an output that is not the format of the
\* input, beside the built-in default input, and wrote no key
C11_Witness ==
  /\ status["json"].label = "Restored"
  /\ inDoc["json"] = JDefault /\ ~store[KeyInput("json")].present
  /\ outDoc["json"] = JListBad /\ store[KeyOutput("json")] = Item(JListBad)
  /\ pending["json"] = << >>

\* C12: right after a (re)load the status of a session is ok with the line
\* count and the size of the restored output when that output is not
\* empty; else idle with a hint when the restored input is not empty; else
\* idle without a hint.
C12_InitialStatus ==
  [][Reload =>
       \A s \in Sessions :
         IF outDoc'[s] # Empty
         THEN /\ status'[s].type = "ok"
              /\ status'[s].lines = LineCount(outDoc'[s])
              /\ status'[s].size = SizeStr(ByteSize(outDoc'[s]))
         ELSE IF inDoc'[s] # Empty
         THEN status'[s].type = "idle" /\ status'[s].label # ""
         ELSE status'[s].type = "idle" /\ status'[s].label = ""]_vars

\* C12 happened: a reload restored an empty input and an empty output and
\* left the status bar idle without a hint
C12_Witness ==
  \E s \in Sessions :
    /\ inDoc[s] = Empty /\ outDoc[s] = Empty /\ store[KeyInput(s)] = Item(Empty)
    /\ status[s] = Markup /\ pending[s] = << >>

\* C13: while the store rejects writes, Format, Paste and the debounced
\* format of input that parses still put the pretty text in the output
\* editor with status Valid, a user edit of the input still leaves a timer
\* pending, and the status is never Invalid for input that parses.
C13_StorageUnavailable ==
  [][quotaFull =>
       \A s \in Sessions :
         /\ (FormatClick(s) /\ Trim(inDoc[s]) # Empty /\ Canonical(s).ok) =>
              /\ outDoc'[s] = Canonical(s).text
              /\ status'[s].label = "Valid"
         /\ \A text \in ClipboardTexts(s) :
              (PasteResolved(s, text) /\ Trim(text) # Empty /\ Parses(s, text)) =>
                /\ outDoc'[s] = Formatted(s, Trim(text), FALSE).text
                /\ status'[s].label = "Valid"
         /\ \A text \in InputTexts(s) :
              UserEditInput(s, text) => pending'[s] # << >>
         /\ (TimerFire(s) /\ Trim(Head(pending[s]).val) # Empty /\ Canonical(s).ok) =>
              status'[s].label # "Invalid"]_vars

\* C14: when the clipboard read of Paste or the clipboard write of Copy
\* fails, the editors, the keys, the status and the timers of the session
\* stay as they are, and a toast is shown.
C14_ClipboardFailureIsLocal ==
  [][\A s \in Sessions :
       (PasteRejected(s) \/ CopyRejected(s)) =>
         /\ inDoc' = inDoc /\ outDoc' = outDoc /\ store' = store
         /\ status' = status
         /\ pending' = pending /\ debounceTimer' = debounceTimer
         /\ toast' \in {ToastDenied, ToastCopyFailed}]_vars

\* C14 happened: the clipboard read failed while a timer was pending and
\* the output held a formatted text
C14_Witness ==
  /\ toast = ToastDenied
  /\ inDoc["json"] = JBad /\ pending["json"] = <<[val |-> JBad, by |-> "user"]>>
  /\ outDoc["json"] = JDefault /\ status["json"].label = "Valid"

\* the leading whitespace that trim takes off a text, the line breaks in it
\* and the units after the last of them
LeadingSpace(t) == SubSeq(t, 1, Len(t) - Len(TrimStart(t)))
LeadingLines(t) == LineCount(LeadingSpace(t)) - 1
LeadingColumns(t) ==
  Len(LeadingSpace(t)) - Cardinality({i \in 1..Len(LeadingSpace(t)) :
                                        \E j \in i..Len(LeadingSpace(t)) : LeadingSpace(t)[j] = "\n"})

\* C15: when Format fails on a YAML text, the line and the column of the
\* status are the 1-based line and column, in the text of the input
\* editor, of the place the engine marked: the engine's mark moved by the
\* lines and the spaces before the first content.
C15_YamlErrorPosition ==
  [][\A s \in Sessions :
       (FormatClick(s) /\ s = "yaml" /\ Trim(inDoc[s]) # Empty /\ ~Canonical(s).ok) =>
         /\ status'[s].line = LeadingLines(inDoc[s]) + YAMLloadAll(Trim(inDoc[s])).line + 1
         /\ status'[s].col =
              (IF YAMLloadAll(Trim(inDoc[s])).line = 0 THEN LeadingColumns(inDoc[s]) ELSE 0)
                + YAMLloadAll(Trim(inDoc[s])).column + 1]_vars

\* C16: a user edit of the output editor into a text that is not empty and
\* does not parse leaves the input editor, the input key and the status as
\* they are, shows no toast, and starts or cancels no timer, so that no
\* later timer fire is due to it.
C16_BackwardFailureSilent ==
  [][\A s \in Sessions : \A text \in OutputTexts(s) :
       (UserEditOutput(s, text) /\ Trim(text) # Empty /\ ~Parses(s, text)) =>
         /\ inDoc'[s] = inDoc[s]
         /\ store'[KeyInput(s)] = store[KeyInput(s)]
         /\ status'[s] = status[s]
         /\ toast' = toast
         /\ pending'[s] = pending[s] /\ debounceTimer'[s] = debounceTimer[s]]_vars

\* C16 happened: the user broke the formatted output, and the input and the
\* status Valid are as the format left them
C16_Witness ==
  /\ outDoc["json"] = JListBad /\ store[KeyOutput("json")] = Item(JListBad)
  /\ inDoc["json"] = JLoose /\ store[KeyInput("json")] = Item(JLoose)
  /\ status["json"].label = "Valid" /\ pending["json"] = << >>
  /\ toast = NoToast

\* C17: a timer that a change made by the program has scheduled never
\* makes the program change an editor: when it fires it formats nothing.
C17_NoPropagationLoop ==
  [][\A s \in Sessions :
       ~(/\ TimerFire(s)
         /\ Head(pending[s]).by = "prog"
         /\ Trim(Head(pending[s]).val) # Empty)]_vars

\* an operation of session s: a user edit, a timer fire, Format, Minify,
\* Clear, Paste or Copy
SessionOp(s) ==
  \/ \E text \in IsoInputTexts(s) : UserEditInput(s, text)
  \/ \E text \in IsoOutputTexts(s) : UserEditOutput(s, text)
  \/ TimerFire(s)
  \/ FormatClick(s) \/ MinifyClick(s) \/ ClearClick(s)
  \/ \E text \in IsoClipboardTexts(s) : PasteResolved(s, text)
  \/ PasteRejected(s)
  \/ CopyEmpty(s) \/ CopyResolved(s) \/ CopyRejected(s)

\* C18: an operation of one session leaves the editors, the timers, the
\* status and the two keys of the other session as they are, however the
\* events of the two sessions interleave.
C18_SessionIsolation ==
  [][\A s \in Sessions : SessionOp(s) =>
       \A o \in Sessions \ {s} :
         /\ inDoc'[o] = inDoc[o] /\ outDoc'[o] = outDoc[o]
         /\ pending'[o] = pending[o] /\ debounceTimer'[o] = debounceTimer[o]
         /\ status'[o] = status[o]
         /\ store'[KeyInput(o)] = store[KeyInput(o)]
         /\ store'[KeyOutput(o)] = store[KeyOutput(o)]]_vars

\* C18 happened: the YAML session formatted a pasted stream while a timer of
\* the JSON session was pending beside an output the user had broken
C18_Witness ==
  /\ pending["json"] = <<[val |-> JLoose, by |-> "user"]>>
  /\ outDoc["json"] = JListBad /\ store[KeyOutput("json")] = Item(JListBad)
  /\ inDoc["yaml"] = YMulti /\ status["yaml"].label = "Valid"
  /\ store[KeyOutput("yaml")] = Item(outDoc["yaml"])
  /\ pending["yaml"] # << >>

\* the separator lines of a list of lines, and the place of the k-th of
\* them: 0 before the first, one past the last line after the last
Separators(lines) == {i \in 1..Len(lines) : lines[i] = <<"---">>}
SeparatorAt(lines, k) ==
  IF k = 0 THEN 0
  ELSE IF k > Cardinality(Separators(lines)) THEN Len(lines) + 1
  ELSE CHOOSE i \in Separators(lines) :
         Cardinality({j \in Separators(lines) : j < i}) = k - 1

\* C19: when Format succeeds on a YAML text of n >= 1 documents, the output
\* has exactly n - 1 separator lines, neither its first nor its last line
\* is a separator, the lines before, between and after the separators are
\* the dumps of the n documents in order, and the output does not end in
\* whitespace.
C19_MultiDocument ==
  [][\A s \in Sessions :
       (/\ FormatClick(s) /\ s = "yaml" /\ Trim(inDoc[s]) # Empty
        /\ Canonical(s).ok /\ YAMLloadAll(Trim(inDoc[s])).docs # << >>) =>
         LET docs == YAMLloadAll(Trim(inDoc[s])).docs
             lines == SplitLines(outDoc'[s])
         IN /\ Cardinality(Separators(lines)) = Len(docs) - 1
            /\ 1 \notin Separators(lines)
            /\ Len(lines) \notin Separators(lines)
            /\ \A k \in 1..Len(docs) :
                 SubSeq(lines, SeparatorAt(lines, k - 1) + 1, SeparatorAt(lines, k) - 1)
                   = SplitLines(SubSeq(YAMLdump(docs[k]), 1, Len(YAMLdump(docs[k])) - 1))
            /\ outDoc'[s] # Empty /\ outDoc'[s][Len(outDoc'[s])] \notin WS]_vars

\* C19 happened: Format wrote a stream of three documents with two
\* separators
C19_Witness ==
  /\ inDoc["yaml"] = JoinStream(<<<<"a", ":", " ", "1">>, <<"features", ":">>, <<"true">>>>)
  /\ outDoc["yaml"] = <<"a", ":", " ", "1", "\n", "---", "\n",
                         "features", ":", " ", "null", "\n", "---", "\n", "true">>
  /\ status["yaml"].label = "Valid"

\* a parsed value with its zeros unsigned: === does not tell -0 from 0
Unsigned(value) == [i \in 1..Len(value) |-> IF value[i] = "-0" THEN "0" ELSE value[i]]

\* C20: when Format succeeds on a JSON text, parsing the output gives the
\* value that parsing the input gave, keys in the same order, and
\* formatting the output gives the output again.
C20_JsonRoundTrip ==
  [][\A s \in Sessions :
       (FormatClick(s) /\ s = "json" /\ Trim(inDoc[s]) # Empty /\ Canonical(s).ok) =>
         /\ JSONparse(outDoc'[s]).ok
         /\ Unsigned(JSONparse(outDoc'[s]).value) = Unsigned(JSONparse(Trim(inDoc[s])).value)
         /\ Formatted(s, Trim(outDoc'[s]), FALSE).text = outDoc'[s]]_vars

\* C21: a timer that an input edit of the user scheduled, when it fires,
\* leaves the output editor as it is if the user typed the text of the
\* output editor after that input edit.
C21_NoClobbering ==
  [][\A s \in Sessions :
       (TimerFire(s) /\ s \in inFlight /\ Head(pending[s]).by = "user")
         => outDoc'[s] = outDoc[s]]_vars

\* C22: when no timer of a session is pending and the user has never typed
\* in the output editor, status Valid means that the output editor holds
\* the pretty or the compact text of the present input, and status Invalid
\* means that the output editor is empty.
C22_ValidMeaning ==
  \A s \in Sessions :
    pending[s] = << >> =>
      /\ status[s].label = "Valid" =>
            /\ Trim(inDoc[s]) # Empty /\ Canonical(s).ok
            /\ outDoc[s] \in {Canonical(s).text, Formatted(s, Trim(inDoc[s]), TRUE).text}
      /\ status[s].label = "Invalid" => outDoc[s] = Empty

\* C23: when Format or Minify succeeds, the status gives the number of
\* lines and the size of the text now in the output editor, the size in
\* bytes when it is below 1024 bytes and in kilobytes when it is 1024
\* bytes or more.
C23_StatusMetadata ==
  [][\A s \in Sessions :
       ((FormatClick(s) \/ MinifyClick(s)) /\ status'[s].label = "Valid") =>
         /\ status'[s].lines = LineCount(outDoc'[s])
         /\ IF ByteSize(outDoc'[s]) < 1024
            THEN status'[s].size = [num |-> ByteSize(outDoc'[s]), unit |-> "B"]
            ELSE status'[s].size.unit = "KB"]_vars

\* C24: after a (re)load and after a tab click exactly one tab and exactly
\* one panel are active, both of the same mode, and the active-tab key
\* holds that mode; a (re)load activates the mode the key held, or json
\* when the key was absent, and a click the mode of the tab clicked.
C24_TabCoordinator ==
  [][(Reload \/ \E mode \in Sessions : TabClick(mode)) =>
       /\ Cardinality(tabsActive') = 1 /\ Cardinality(panelsActive') = 1
       /\ panelsActive' = tabsActive'
       /\ \E mode \in Sessions :
            tabsActive' = {mode} /\ store'[KeyTab] = Item(<<mode>>)
       /\ Reload =>
            tabsActive' = {IF store[KeyTab].present THEN store[KeyTab].value[1]
                           ELSE "json"}
       /\ \A mode \in Sessions : TabClick(mode) => tabsActive' = {mode}]_vars

\* C24 happened: the user has worked in the JSON panel, has clicked the
\* YAML tab, and has worked there
C24_Witness ==
  /\ tabsActive = {"yaml"} /\ panelsActive = {"yaml"}
  /\ store[KeyTab] = Item(<<"yaml">>)
  /\ outDoc["json"] # Empty /\ outDoc["yaml"] # Empty
  /\ ~store[KeyInput("json")].present

\* C25: at all times between two events, the text under the output key of a
\* session, read as the empty text when the key is absent, is the text of
\* the session's output editor.
C25_StoreMirrorsOutput ==
  \A s \in Sessions :
    (IF store[KeyOutput(s)].present THEN store[KeyOutput(s)].value ELSE Empty) = outDoc[s]

\* C25 happened: a failed format has emptied an output editor that held
\* text, and has removed the key
C25_Witness ==
  /\ status["json"].label = "Invalid" /\ outDoc["json"] = Empty
  /\ ~store[KeyOutput("json")].present
  /\ inDoc["json"] = JBad /\ store[KeyInput("json")] = Item(JBad)
  /\ pending["json"] = << >>

\* C26: while the user does nothing after a Minify that wrote the compact
\* text, a timer that fires leaves the output editor as it is.
C26_MinifyStable ==
  [][\A s \in Sessions :
       (TimerFire(s) /\ s \in minified) => outDoc'[s] = outDoc[s]]_vars
====
